---- MODULE Spec2Model ----
(***************************************************************************)
(* Model of src/util.rs: truncate_with_ellipsis and truncate_with_width.   *)
(*                                                                         *)
(* A &str / String is the sequence of its UTF-8 bytes (integers 0..255).   *)
(* A char is its Unicode scalar value.  Encoding and decoding follow the   *)
(* UTF-8 bit layout, so byte offsets, char_indices, len_utf8 and str       *)
(* slicing are computed as the library computes them.                      *)
(***************************************************************************)
EXTENDS Integers, Sequences, FiniteSets

(***************************************************************************)
(* Bounds of the explored inputs.                                          *)
(***************************************************************************)
MaxTextLen == 3
MaxEllipsisLen == 2
MaxWidth == 4
MaxCharsLen == 4
MaxChars == 5
DocMaxWidth == 10

(***************************************************************************)
(* Scalar values used to build inputs.                                     *)
(***************************************************************************)
LatinA == 97
Space == 32
Dot == 46
EAcute == 233
CombiningAcute == 769
Arrow == 8594
CjkShi == 19990
Crab == 129408

\* Sequences over S of length 0..n
BoundedSeq(S, n) == UNION {[1..k -> S] : k \in 0..n}

(***************************************************************************)
(* UTF-8 (core::char, core::str)                                           *)
(***************************************************************************)
\* char::len_utf8
len_utf8(c) ==
    IF c < 128 THEN 1
    ELSE IF c < 2048 THEN 2
    ELSE IF c < 65536 THEN 3
    ELSE 4

\* char::encode_utf8: the bytes of one scalar value
encode_utf8(c) ==
    IF c < 128 THEN <<c>>
    ELSE IF c < 2048 THEN <<192 + (c \div 64), 128 + (c % 64)>>
    ELSE IF c < 65536 THEN
        <<224 + (c \div 4096), 128 + ((c \div 64) % 64), 128 + (c % 64)>>
    ELSE
        <<240 + (c \div 262144), 128 + ((c \div 4096) % 64),
          128 + ((c \div 64) % 64), 128 + (c % 64)>>

\* String::push over a sequence of chars
RECURSIVE encode_str(_)
encode_str(cs) ==
    IF cs = <<>> THEN <<>> ELSE encode_utf8(Head(cs)) \o encode_str(Tail(cs))

\* core::str::utf8_char_width: the length announced by a leading byte
utf8_char_width(b) ==
    IF b < 128 THEN 1
    ELSE IF b < 224 THEN 2
    ELSE IF b < 240 THEN 3
    ELSE 4

\* the scalar value encoded by the n bytes of s that start at 1-based pos p
decode_at(s, p, n) ==
    IF n = 1 THEN s[p]
    ELSE IF n = 2 THEN (s[p] - 192) * 64 + (s[p + 1] - 128)
    ELSE IF n = 3 THEN
        (s[p] - 224) * 4096 + (s[p + 1] - 128) * 64 + (s[p + 2] - 128)
    ELSE
        (s[p] - 240) * 262144 + (s[p + 1] - 128) * 4096
            + (s[p + 2] - 128) * 64 + (s[p + 3] - 128)

\* str::char_indices: the sequence of <<byte offset, char>>, offsets from 0
RECURSIVE char_indices_from(_, _)
char_indices_from(s, idx) ==
    IF idx >= Len(s) THEN <<>>
    ELSE LET n == utf8_char_width(s[idx + 1])
         IN  <<(<<idx, decode_at(s, idx + 1, n)>>)>>
                 \o char_indices_from(s, idx + n)

char_indices(s) == char_indices_from(s, 0)

\* str::chars
chars(s) == LET ci == char_indices(s) IN [i \in 1..Len(ci) |-> ci[i][2]]

\* str::is_char_boundary: 0, len, or a byte that is not a continuation byte
is_char_boundary(s, idx) ==
    \/ idx = 0
    \/ idx = Len(s)
    \/ /\ idx < Len(s)
       /\ ~(s[idx + 1] >= 128 /\ s[idx + 1] < 192)

\* The value standing for a panic: 0xFF is no byte of any UTF-8 string.
Panic == <<255>>

\* &s[..idx]: panics when idx is not on a char boundary
slice_to(s, idx) ==
    IF idx <= Len(s) /\ is_char_boundary(s, idx) THEN SubSeq(s, 1, idx) ELSE Panic

(***************************************************************************)
(* Whitespace and display width                                            *)
(***************************************************************************)
\* char::is_whitespace (Unicode White_Space)
is_whitespace(c) ==
    \/ c \in 9..13
    \/ c \in {32, 133, 160, 5760, 8232, 8233, 8239, 8287, 12288}
    \/ c \in 8192..8202

\* number of chars left when the trailing whitespace chars are dropped
RECURSIVE trimmed_len(_, _)
trimmed_len(cs, n) ==
    IF n = 0 THEN 0
    ELSE IF is_whitespace(cs[n]) THEN trimmed_len(cs, n - 1)
    ELSE n

\* variant: str::trim, which strips the leading whitespace too
trim_both_ends(s) ==
    LET cs == chars(s)
        n == trimmed_len(cs, Len(cs))
        lead == CHOOSE j \in 0..Len(cs) :
                    /\ \A i \in 1..j : is_whitespace(cs[i])
                    /\ j = Len(cs) \/ ~is_whitespace(cs[j + 1])
    IN  encode_str(SubSeq(cs, lead + 1, n))

\* str::trim_end
trim_end(s) ==
    LET cs == chars(s) IN encode_str(SubSeq(cs, 1, trimmed_len(cs, Len(cs))))

\* the width oracle for one scalar value (unicode_width): 0, 1 or 2
unicode_width(c) ==
    IF c \in 768..879 \/ c \in 8203..8205 THEN 0
    ELSE IF \/ c \in 4352..4447
            \/ c \in 11904..42191
            \/ c \in 44032..55203
            \/ c \in 63744..64255
            \/ c \in 65280..65376
            \/ c \in 127744..129791
         THEN 2
    ELSE 1

RECURSIVE sum_widths(_)
sum_widths(cs) ==
    IF cs = <<>> THEN 0 ELSE unicode_width(Head(cs)) + sum_widths(Tail(cs))

\* UnicodeWidthStr::width
str_width(s) == sum_widths(chars(s))

(***************************************************************************)
(* truncate_with_ellipsis                                                  *)
(***************************************************************************)
\* the literal appended by format!("{}...", ..)
DotDotDot == <<Dot, Dot, Dot>>

\* variant: max_chars taken as a byte offset
nth_byte_index(s, max_chars) ==
    IF max_chars < Len(s) THEN <<max_chars>> ELSE <<>>

\* s.char_indices().nth(max_chars): <<idx>> for Some((idx, _)), <<>> for None
nth_char_index(s, max_chars) ==
    LET ci == char_indices(s)
    IN  IF max_chars < Len(ci) THEN <<ci[max_chars + 1][1]>> ELSE <<>>

truncate_with_ellipsis(s, max_chars) ==
    LET found == nth_char_index(s, max_chars)
    IN  IF found # <<>>
        THEN LET truncated == slice_to(s, found[1])
             IN  IF truncated = Panic THEN Panic
                 ELSE trim_end(truncated) \o DotDotDot
        ELSE s

(***************************************************************************)
(* truncate_with_width                                                     *)
(***************************************************************************)
\* the ellipsis loop's test: width_so_far + char_width > max_width
ellipsis_exceeds(width_so_far, cw, max_width) == width_so_far + cw > max_width

\* variant: the text loop's test with >= for >
exceeds_or_meets(width_so_far, cw, avail) == width_so_far + cw >= avail

\* the text loop's test: width_so_far + char_width > available_width
exceeds(width_so_far, cw, avail) == width_so_far + cw > avail

\* the width of one char, measured on its encoding
char_width(c) == str_width(encode_utf8(c))

\* the loop over ellipsis.chars() that builds truncated_ellipsis
RECURSIVE ellipsis_loop(_, _, _, _, _)
ellipsis_loop(cs, i, width_so_far, truncated_ellipsis, max_width) ==
    IF i > Len(cs) THEN truncated_ellipsis
    ELSE IF ellipsis_exceeds(width_so_far, char_width(cs[i]), max_width)
         THEN truncated_ellipsis
    ELSE ellipsis_loop(cs, i + 1, width_so_far + char_width(cs[i]),
                       truncated_ellipsis \o encode_utf8(cs[i]), max_width)

\* whether the ellipsis has to be shortened
ellipsis_too_wide(ellipsis_width, max_width) == ellipsis_width >= max_width

\* variant: the ellipsis is never shortened
effective_ellipsis_whole(ellipsis, max_width) == ellipsis

effective_ellipsis(ellipsis, max_width) ==
    IF ellipsis_too_wide(str_width(ellipsis), max_width)
    THEN ellipsis_loop(chars(ellipsis), 1, 0, <<>>, max_width)
    ELSE ellipsis

\* usize::saturating_sub
saturating_sub(a, b) == IF a > b THEN a - b ELSE 0

\* variant: the width of the ellipsis is not subtracted
available_width_whole(max_width, effective_ellipsis_width) == max_width

available_width(max_width, effective_ellipsis_width) ==
    saturating_sub(max_width, effective_ellipsis_width)

\* variant: every char taken to be one byte long
next_truncate_at_one_byte(idx, c) == idx + 1

\* the truncation point after one kept char
next_truncate_at(idx, c) == idx + len_utf8(c)

\* the loop over s.char_indices() that finds truncate_at
RECURSIVE truncate_loop(_, _, _, _, _)
truncate_loop(ci, i, width_so_far, truncate_at, avail) ==
    IF i > Len(ci) THEN truncate_at
    ELSE IF exceeds(width_so_far, char_width(ci[i][2]), avail) THEN truncate_at
    ELSE truncate_loop(ci, i + 1, width_so_far + char_width(ci[i][2]),
                       next_truncate_at(ci[i][1], ci[i][2]), avail)

find_truncate_at(s, avail) == truncate_loop(char_indices(s), 1, 0, 0, avail)

\* variant: the prefix is not trimmed
kept_prefix_untrimmed(s, truncate_at) == slice_to(s, truncate_at)

\* the prefix written before the ellipsis
kept_prefix(s, truncate_at) ==
    LET cut == slice_to(s, truncate_at)
    IN  IF cut = Panic THEN Panic ELSE trim_end(cut)

\* variant: the test for "no truncation needed" with < for <=
fits_strictly(current_width, max_width) == current_width < max_width

\* the test for "no truncation needed": current_width <= max_width
fits(current_width, max_width) == current_width <= max_width

truncate_with_width(s, max_width, ellipsis) ==
    IF max_width = 0 THEN <<>>
    ELSE IF fits(str_width(s), max_width) THEN s
    ELSE LET eff == effective_ellipsis(ellipsis, max_width)
         IN  IF ellipsis_too_wide(str_width(ellipsis), max_width) /\ eff = <<>>
             THEN <<>>
             ELSE LET avail == available_width(max_width, str_width(eff))
                      truncate_at == find_truncate_at(s, avail)
                  IN  IF truncate_at = 0 THEN eff
                      ELSE LET kept == kept_prefix(s, truncate_at)
                           IN  IF kept = Panic THEN Panic ELSE kept \o eff

(***************************************************************************)
(* State: one call, its arguments and its return value; then the same      *)
(* function applied to what it returned (first), with the same budget.     *)
(***************************************************************************)
VARIABLES fn, s, max_chars, max_width, ellipsis, result, first, pc

vars == <<fn, s, max_chars, max_width, ellipsis, result, first, pc>>

\* texts given to truncate_with_ellipsis
CountAlphabet == {LatinA, Space, EAcute, CjkShi, Crab}
\* texts and ellipses given to truncate_with_width
WidthAlphabet == {LatinA, Space, CombiningAcute, CjkShi}
EllipsisAlphabet == {Dot, CombiningAcute, CjkShi}

\* the strings of the documentation examples and tests
HelloShiJie == <<72, 101, 108, 108, 111, 32, 19990, 30028>>
HelloWorld == <<104, 101, 108, 108, 111, 32, 119, 111, 114, 108, 100>>
NiHaoShiJie == <<20320, 22909, 19990, 30028>>
WaveHello == <<128075, 72, 101, 108, 108, 111>>
ThisIsALong == <<84, 104, 105, 115, 32, 105, 115, 32, 97, 32, 108, 111, 110, 103>>
DocTexts == {HelloShiJie, HelloWorld, NiHaoShiJie, WaveHello, ThisIsALong}
DocEllipses == {<<Dot, Dot, Dot>>, <<Arrow>>}

InitCount ==
    /\ fn = "truncate_with_ellipsis"
    /\ \E cs \in BoundedSeq(CountAlphabet, MaxCharsLen) \cup DocTexts :
            s = encode_str(cs)
    /\ max_chars \in 0..MaxChars
    /\ max_width = 0
    /\ ellipsis = encode_str(DotDotDot)

InitWidth ==
    /\ fn = "truncate_with_width"
    /\ \E cs \in BoundedSeq(WidthAlphabet, MaxTextLen) : s = encode_str(cs)
    /\ \E es \in BoundedSeq(EllipsisAlphabet, MaxEllipsisLen) :
            ellipsis = encode_str(es)
    /\ max_width \in 0..MaxWidth
    /\ max_chars = 0

InitDoc ==
    /\ fn = "truncate_with_width"
    /\ \E cs \in DocTexts : s = encode_str(cs)
    /\ \E es \in DocEllipses : ellipsis = encode_str(es)
    /\ max_width \in 0..DocMaxWidth
    /\ max_chars = 0

Init ==
    /\ \/ InitCount
       \/ InitWidth
       \/ InitDoc
    /\ result = <<>>
    /\ first = <<>>
    /\ pc = "call"

CallTruncateWithEllipsis ==
    /\ pc = "call"
    /\ fn = "truncate_with_ellipsis"
    /\ result' = truncate_with_ellipsis(s, max_chars)
    /\ pc' = "returned"
    /\ UNCHANGED <<fn, s, max_chars, max_width, ellipsis, first>>

CallTruncateWithWidth ==
    /\ pc = "call"
    /\ fn = "truncate_with_width"
    /\ result' = truncate_with_width(s, max_width, ellipsis)
    /\ pc' = "returned"
    /\ UNCHANGED <<fn, s, max_chars, max_width, ellipsis, first>>

\* the returned string is passed to the same function with the same budget
AgainTruncateWithEllipsis ==
    /\ pc = "returned"
    /\ fn = "truncate_with_ellipsis"
    /\ result # Panic
    /\ first' = result
    /\ result' = truncate_with_ellipsis(result, max_chars)
    /\ pc' = "again"
    /\ UNCHANGED <<fn, s, max_chars, max_width, ellipsis>>

AgainTruncateWithWidth ==
    /\ pc = "returned"
    /\ fn = "truncate_with_width"
    /\ result # Panic
    /\ first' = result
    /\ result' = truncate_with_width(result, max_width, ellipsis)
    /\ pc' = "again"
    /\ UNCHANGED <<fn, s, max_chars, max_width, ellipsis>>

Next ==
    \/ CallTruncateWithEllipsis
    \/ CallTruncateWithWidth
    \/ AgainTruncateWithEllipsis
    \/ AgainTruncateWithWidth

Spec == Init /\ [][Next]_vars

\* the text argument of the call that produced result
arg == IF pc = "again" THEN first ELSE s

\* a call of the named function has returned
Returned(f) == fn = f /\ pc # "call"

(***************************************************************************)
(* Vocabulary of the properties, stated on chars rather than on the scan.  *)
(***************************************************************************)
\* s is a sequence of complete UTF-8 encoded scalar values
RECURSIVE WellFormedFrom(_, _)
WellFormedFrom(b, p) ==
    IF p > Len(b) THEN TRUE
    ELSE LET n == IF b[p] < 128 THEN 1
                  ELSE IF b[p] \in 192..223 THEN 2
                  ELSE IF b[p] \in 224..239 THEN 3
                  ELSE IF b[p] \in 240..247 THEN 4
                  ELSE 0
         IN  /\ n > 0
             /\ p + n - 1 <= Len(b)
             /\ \A q \in (p + 1)..(p + n - 1) : b[q] \in 128..191
             /\ WellFormedFrom(b, p + n)

WellFormed(b) == WellFormedFrom(b, 1)

\* total width of the first k chars of cs
PrefixWidth(cs, k) == sum_widths(SubSeq(cs, 1, k))

\* total encoded length of the first k chars of cs
RECURSIVE PrefixBytes(_, _)
PrefixBytes(cs, k) ==
    IF k = 0 THEN 0 ELSE PrefixBytes(cs, k - 1) + len_utf8(cs[k])

\* the byte offsets that lie between two chars of the string b
BoundaryOffsets(b) ==
    LET cs == chars(b) IN {PrefixBytes(cs, k) : k \in 0..Len(cs)}

\* the number of chars of the longest prefix of cs whose width is <= w
LongestFitting(cs, w) ==
    CHOOSE k \in 0..Len(cs) :
        /\ PrefixWidth(cs, k) <= w
        /\ \A j \in 0..Len(cs) : PrefixWidth(cs, j) <= w => j <= k

\* the number of chars of cs[1..k] left once trailing whitespace is stripped
StrippedLen(cs, k) ==
    CHOOSE j \in 0..k :
        /\ j = 0 \/ ~is_whitespace(cs[j])
        /\ \A i \in (j + 1)..k : is_whitespace(cs[i])

\* the encoding of the first k chars of cs, trailing whitespace stripped
StrippedPrefix(cs, k) == encode_str(SubSeq(cs, 1, StrippedLen(cs, k)))

\* b ends with the bytes e
EndsWith(b, e) ==
    /\ Len(e) <= Len(b)
    /\ SubSeq(b, Len(b) - Len(e) + 1, Len(b)) = e

\* the call of truncate_with_width that returned went past both early returns
WidthTruncates ==
    /\ Returned("truncate_with_width")
    /\ max_width >= 1
    /\ str_width(arg) > max_width

\* the available width and truncation point of the call that returned
ArgAvailable ==
    available_width(max_width, str_width(effective_ellipsis(ellipsis, max_width)))

ArgTruncateAt == find_truncate_at(arg, ArgAvailable)

\* the scan of the text ran: the shortened ellipsis was not empty
ScanRan ==
    /\ WidthTruncates
    /\ ~(/\ ellipsis_too_wide(str_width(ellipsis), max_width)
         /\ effective_ellipsis(ellipsis, max_width) = <<>>)

C2_NoOpWidth ==
    (Returned("truncate_with_width") /\ str_width(arg) <= max_width) =>
        result = arg

(***************************************************************************)
(* C3: truncate_with_ellipsis applied twice with the same max_chars gives  *)
(* what it gives applied once.                                             *)
(***************************************************************************)
C3_IdempotentEllipsis ==
    (fn = "truncate_with_ellipsis" /\ pc = "again") => result = first

\* the number of whitespace chars the first call stripped from its prefix
C3_Stripped ==
    LET cs == chars(s)
    IN  IF Len(cs) > max_chars
        THEN max_chars - StrippedLen(cs, max_chars)
        ELSE 0

\* C3 as amended: the second application changes nothing exactly when the
\* first one stripped no whitespace char or stripped at least three.
C3_IdempotentUnlessStripped ==
    (fn = "truncate_with_ellipsis" /\ pc = "again") =>
        (result = first <=> C3_Stripped \notin {1, 2})

\* a truncated text, nothing stripped, truncated again to the same string
C3_Witness ==
    /\ fn = "truncate_with_ellipsis"
    /\ pc = "again"
    /\ Len(chars(s)) > max_chars
    /\ max_chars > 0
    /\ C3_Stripped = 0
    /\ first # s
    /\ result = first

(***************************************************************************)
(* C4: truncate_with_width applied twice with the same max_width and       *)
(* ellipsis gives what it gives applied once.                              *)
(***************************************************************************)
C4_IdempotentWidth ==
    (fn = "truncate_with_width" /\ pc = "again") => result = first

\* a text that was really cut, with whitespace trimmed, and is then stable
C4_Witness ==
    /\ fn = "truncate_with_width"
    /\ pc = "again"
    /\ str_width(s) > max_width
    /\ first # <<>>
    /\ first # ellipsis
    /\ str_width(first) < max_width
    /\ result = first

(***************************************************************************)
(* C5: truncate_with_ellipsis returns the text unchanged when it has at    *)
(* most max_chars chars, and otherwise its first max_chars chars with the  *)
(* trailing whitespace stripped, followed by "...".                        *)
(***************************************************************************)
C5_EllipsisContract ==
    Returned("truncate_with_ellipsis") =>
        LET cs == chars(arg)
        IN  IF Len(cs) <= max_chars
            THEN result = arg
            ELSE result = StrippedPrefix(cs, max_chars) \o <<46, 46, 46>>

\* a truncation whose prefix ended in whitespace and held a multi-byte char
C5_Witness ==
    /\ Returned("truncate_with_ellipsis")
    /\ pc = "returned"
    /\ Len(chars(s)) > max_chars
    /\ C3_Stripped = 1
    /\ Len(result) > Len(chars(result))

(***************************************************************************)
(* C6: every offset at which either function slices its text lies between *)
(* two chars of the text, and what is returned is a sequence of complete   *)
(* chars.                                                                  *)
(***************************************************************************)
C6_SliceOnBoundary ==
    /\ Returned("truncate_with_ellipsis") =>
        /\ nth_char_index(arg, max_chars) # <<>> =>
               nth_char_index(arg, max_chars)[1] \in BoundaryOffsets(arg)
        /\ result # Panic
        /\ WellFormed(result)
    /\ Returned("truncate_with_width") =>
        /\ ScanRan => ArgTruncateAt \in BoundaryOffsets(arg)
        /\ result # Panic
        /\ WellFormed(result)

\* a width truncation that cut right after a multi-byte char
C6_Witness ==
    /\ ScanRan
    /\ ArgTruncateAt > 0
    /\ ArgTruncateAt < Len(arg)
    /\ arg[ArgTruncateAt] >= 128
    /\ arg[ArgTruncateAt + 1] >= 128

(***************************************************************************)
(* C7: the documentation example: truncate_with_width("Hello 世界", 8,     *)
(* "...") returns "Hello 世...".                                           *)
(***************************************************************************)
C7_Call ==
    /\ fn = "truncate_with_width"
    /\ pc = "returned"
    /\ s = encode_str(HelloShiJie)
    /\ max_width = 8
    /\ ellipsis = encode_str(DotDotDot)

C8_Case == WidthTruncates /\ max_width > str_width(ellipsis)

C9_Case == WidthTruncates /\ str_width(ellipsis) >= max_width

C9_E ==
    LET es == chars(ellipsis)
    IN  encode_str(SubSeq(es, 1, LongestFitting(es, max_width)))

C9_ShortenedEllipsis ==
    C9_Case =>
        IF C9_E = <<>>
        THEN result = <<>>
        ELSE /\ EndsWith(result, C9_E)
             /\ str_width(SubSeq(result, 1, Len(result) - Len(C9_E)))
                    <= max_width - str_width(C9_E)

\* a shortened, non-empty ellipsis with text kept before it
C9_Witness ==
    /\ C9_Case
    /\ C9_E # <<>>
    /\ C9_E # ellipsis
    /\ Len(result) > Len(C9_E)

(***************************************************************************)
(* C10: the scan of the text never stops at a zero-width char: the first   *)
(* char of the text that is not in the retained prefix has width >= 1.     *)
(***************************************************************************)
C10_StopsAtWideEnough ==
    ScanRan =>
        \E i \in 1..Len(char_indices(arg)) :
            /\ char_indices(arg)[i][1] = ArgTruncateAt
            /\ unicode_width(char_indices(arg)[i][2]) >= 1

\* the budget was used up by a retained char and the zero-width char that
\* follows it was retained too
C10_Witness ==
    /\ ScanRan
    /\ \E i \in 2..Len(char_indices(arg)) :
        /\ unicode_width(char_indices(arg)[i][2]) = 0
        /\ PrefixWidth(chars(arg), i - 1) = ArgAvailable
        /\ ArgAvailable > 0
        /\ char_indices(arg)[i][1] < ArgTruncateAt

====
